---- MODULE Spec2Model ----
(***************************************************************************)
(* Model of main.py: image discovery and validation (get_image_tuples),    *)
(* chunk extraction (get_chunks_dict), group serialisation                 *)
(* (output_generator, a Python generator consumed lazily by main) and the  *)
(* output writer (store_output).                                           *)
(*                                                                         *)
(* File names are sequences of tokens; pathlib's stem/suffix/with_name are *)
(* computed the way pathlib computes them.  A decoded image is its shape;  *)
(* a chunk matrix is identified by the image and the pixel window it was   *)
(* read from.  The text of one group record is its parts: header, front    *)
(* code, data and back code.                                               *)
(***************************************************************************)
EXTENDS Integers, Sequences, FiniteSets, TLC

VARIABLES
    pc,            \* position of main()
    inpt,          \* the input path: [is_file, files: name -> decoded image]
    g,             \* args.group_size
    one_file,      \* args.one_file
    overwrite,     \* args.overwrite
    add_code,      \* args.add_code
    image_tuples,  \* main's image_tuples
    idx,           \* number of images the for loop of main has taken
    chunks_dict,   \* main's chunks_dict (OrderedDict as a sequence of pairs)
    i,             \* output_generator's loop variable
    chunk_group,   \* the pair last yielded by output_generator
    fs,            \* the output directory: file name -> sequence of records
    fs0,           \* the output directory before the run
    yields,        \* history: the pairs yielded so far
    writes         \* history: the store_output calls made so far

vars == <<pc, inpt, g, one_file, overwrite, add_code, image_tuples, idx, chunks_dict, i,
          chunk_group, fs, fs0, yields, writes>>

----------------------------------------------------------------------------
(* Bounds *)

MaxFiles == 2      \* files in the input directory
MaxG == 3          \* group sizes tried: 1..MaxG (argparse allows 1..10)

(* Program constants *)

ChunkX == 16
ChunkY == 16

----------------------------------------------------------------------------
(* Inputs *)

\* the file names the input path can hold
Names == { <<"a", ".", "jpg">>, <<"a", ".", "png">>, <<"a", ".", "b", ".", "png">>,
           <<"a", ".", "txt">> }

\* what cv2.imread returns: None (ok = FALSE) or an array of shape (h, w, 3)
NoneImg == [ok |-> FALSE, h |-> 0, w |-> 0]
Shapes == { <<0, 0>>, <<15, 40>>, <<40, 15>>, <<32, 32>>, <<16, 47>> }
Decodes == {NoneImg} \cup { [ok |-> TRUE, h |-> s[1], w |-> s[2]] : s \in Shapes }

\* a record left in a file by an earlier run
Old == [header |-> <<>>, front_code |-> "", data |-> <<>>, back_code |-> <<>>]

\* the widest chunk grid among the shapes
MaxCh ==
    CHOOSE m \in 0..64 :
        /\ \A s \in Shapes : s[1] \div ChunkY <= m /\ s[2] \div ChunkX <= m
        /\ \E s \in Shapes : s[1] \div ChunkY = m \/ s[2] \div ChunkX = m

----------------------------------------------------------------------------
(* pathlib *)

\* str.rfind("."), 1-based; 0 when there is no "."
RFindDot(name) ==
    LET P == { p \in 1..Len(name) : name[p] = "." }
    IN  IF P = {} THEN 0 ELSE CHOOSE p \in P : \A q \in P : q <= p

\* PurePath.suffix
Suffix(name) ==
    LET p == RFindDot(name)
    IN  IF 1 < p /\ p < Len(name) THEN SubSeq(name, p, Len(name)) ELSE <<>>

\* PurePath.stem
PathStem(name) ==
    LET p == RFindDot(name)
    IN  IF 1 < p /\ p < Len(name) THEN SubSeq(name, 1, p - 1) ELSE name

\* order of the tokens as strings
TokenOrder == <<".", "a", "b", "jpg", "png", "txt">>
Rank(t) == CHOOSE k \in 1..Len(TokenOrder) : TokenOrder[k] = t

\* a < b for paths of one directory
RECURSIVE PathLess(_, _)
PathLess(a, b) ==
    IF b = <<>> THEN FALSE
    ELSE IF a = <<>> THEN TRUE
    ELSE IF Head(a) # Head(b) THEN Rank(Head(a)) < Rank(Head(b))
    ELSE PathLess(Tail(a), Tail(b))

\* sorted(...)
RECURSIVE Sorted(_)
Sorted(S) ==
    IF S = {} THEN <<>>
    ELSE LET m == CHOOSE x \in S : \A y \in S \ {x} : PathLess(x, y)
         IN  <<m>> \o Sorted(S \ {m})

----------------------------------------------------------------------------
(* get_image_tuples *)

Extensions == { <<".", "jpg">>, <<".", "jpeg">>, <<".", "png">>, <<".", "bmp">>,
                <<".", "tiff">> }

\* lines 53-58: the candidate paths
ImagePaths(in) ==
    IF in.is_file
    THEN LET p == CHOOSE n \in DOMAIN in.files : TRUE
         IN  IF Suffix(p) \in Extensions THEN <<p>> ELSE <<>>
    ELSE Sorted({ child \in DOMAIN in.files : Suffix(child) \in Extensions })

\* the check of line 66 with "or" for "and"
ValidateEither(image, img) ==
    IF ~img.ok THEN [res |-> "AttributeError"]
    ELSE IF img.h * img.w * 3 = 0 THEN [res |-> "NotAnImage"]
    ELSE LET vertical_ch == img.h \div ChunkY
             horizontal_ch == img.w \div ChunkX
         IN  IF ~(vertical_ch # 0 \/ horizontal_ch # 0)
             THEN [res |-> "TooSmallImage"]
             ELSE [res |-> "ok",
                   tuple |-> [path |-> image, chx |-> horizontal_ch,
                              chy |-> vertical_ch]]

\* lines 62-67: the try block for one candidate: a tuple, or the exception
\* raised (imread returns None for a file it cannot decode, and img.size then
\* raises AttributeError)
Validate(image, img) ==
    IF ~img.ok THEN [res |-> "AttributeError"]
    ELSE IF img.h * img.w * 3 = 0 THEN [res |-> "NotAnImage"]
    ELSE LET vertical_ch == img.h \div ChunkY
             horizontal_ch == img.w \div ChunkX
         IN  IF ~(vertical_ch # 0 /\ horizontal_ch # 0)
             THEN [res |-> "TooSmallImage"]
             ELSE [res |-> "ok",
                   tuple |-> [path |-> image, chx |-> horizontal_ch,
                              chy |-> vertical_ch]]

\* the except clauses without the last one
CaughtNamedOnly(exc) == exc \in {"NotAnImage", "TooSmallImage"}

\* lines 69-77: the except clauses; the last one takes every Exception
Caught(exc) ==
    \/ exc = "NotAnImage"
    \/ exc = "TooSmallImage"
    \/ exc \in {"NotAnImage", "TooSmallImage", "AttributeError"}

\* lines 60-78: the loop over the candidates; an exception no clause catches
\* leaves the function
RECURSIVE ValidateAll(_, _)
ValidateAll(paths, files) ==
    IF paths = <<>> THEN [tuples |-> <<>>, raised |-> FALSE]
    ELSE LET r == Validate(Head(paths), files[Head(paths)])
             rest == ValidateAll(Tail(paths), files)
         IN  IF r.res = "ok"
             THEN [tuples |-> <<r.tuple>> \o rest.tuples, raised |-> rest.raised]
             ELSE IF Caught(r.res) THEN rest
             ELSE [tuples |-> <<>>, raised |-> TRUE]

----------------------------------------------------------------------------
(* get_chunks_dict *)

\* the matrix of one chunk: the window of the image it is read from
Matrix(img, ch_column, ch_row) ==
    [path |-> img.path, y0 |-> ch_row * ChunkY, x0 |-> ch_column * ChunkX,
     rows |-> ChunkY, cols |-> ChunkX]

\* the two for clauses of the comprehension in the other order
ChunkKeyColumnMajor(img, k) == << (k - 1) \div img.chy, (k - 1) % img.chy >>

\* line 95: for ch_row in range(img.chy) for ch_column in range(img.chx)
ChunkKey(img, k) == << (k - 1) % img.chx, (k - 1) \div img.chx >>

\* the first row of chunks only
ChunksDictFirstRow(img) ==
    [ k \in 1..img.chx |->
        LET key == ChunkKey(img, k)
        IN  [key |-> key, value |-> Matrix(img, key[1], key[2])] ]

\* lines 83-97
ChunksDict(img) ==
    [ k \in 1..(img.chy * img.chx) |->
        LET key == ChunkKey(img, k)
        IN  [key |-> key, value |-> Matrix(img, key[1], key[2])] ]

----------------------------------------------------------------------------
(* output_generator *)

Min(a, b) == IF a < b THEN a ELSE b

\* list(...)[lo:hi] with 0-based lo, hi
Slice(s, lo, hi) == SubSeq(s, lo + 1, Min(hi, Len(s)))

Keys(d) == [ k \in 1..Len(d) |-> d[k].key ]
Values(d) == [ k \in 1..Len(d) |-> d[k].value ]

\* the loop value itself as the sequence index
YieldedLoopValue(d, j, size) ==
    [name |-> Slice(Keys(d), j, j + size),
     data |-> Slice(Values(d), j, j + size),
     num  |-> j]

\* lines 104-106: the pair yielded for loop value j
Yielded(d, j, size) ==
    [name |-> Slice(Keys(d), j, j + size),
     data |-> Slice(Values(d), j, j + size),
     num  |-> j \div size]

----------------------------------------------------------------------------
(* store_output *)

Num(n) == ToString(n)

\* lines 110-112
OutputFile(img, num, of) ==
    LET n1 == PathStem(img.path) \o <<"[", Num(img.chx), ",", Num(img.chy), "]">>
        n2 == IF ~of THEN PathStem(n1) \o <<"(", Num(num), ")">> ELSE n1
    IN  n2 \o <<".", "txt">>

\* line 113 without the test that the file exists
OpenModeNoExists(exists, ow, of) ==
    IF ~ow \/ of THEN "a" ELSE "w"

\* line 113 without "not overwrite or"
OpenModeOneFileOnly(exists, ow, of) ==
    IF exists /\ of THEN "a" ELSE "w"

\* line 113
OpenMode(exists, ow, of) ==
    IF exists /\ (~ow \/ of) THEN "a" ELSE "w"

\* lines 114-115 left out
TruncateNever(ow, num) == FALSE

\* line 114
TruncateFirst(ow, num) == ow /\ num = 0

\* line 116
FrontCode(c) == IF c THEN "mem.data = " ELSE ""

\* line 117: one quoted token per coordinate of the header, none without add_code
BackCode(header, c) ==
    IF c THEN [ k \in 1..Len(header) |->
                  <<"\"", Num(header[k][1]), ",", Num(header[k][2]), "\"">> ]
    ELSE <<>>

\* line 119
Record(header, data, c) ==
    [header |-> header, front_code |-> FrontCode(c), data |-> data,
     back_code |-> BackCode(header, c)]

\* open(output_file, mode) followed by write(rec)
WriteFile(dir, f, mode, rec) ==
    IF mode = "a" /\ f \in DOMAIN dir
    THEN [dir EXCEPT ![f] = @ \o <<rec>>]
    ELSE (f :> <<rec>>) @@ dir

\* lines 114-115
Truncate(dir, f) == (f :> <<>>) @@ dir

----------------------------------------------------------------------------
(* Initial states *)

Dirs ==
    UNION { [S -> Decodes] :
            S \in { T \in SUBSET Names : Cardinality(T) \in 1..MaxFiles } }

Inputs ==
    { [is_file |-> FALSE, files |-> d] : d \in Dirs }
    \cup { [is_file |-> TRUE, files |-> d] :
           d \in { e \in Dirs : Cardinality(DOMAIN e) = 1 } }

\* the names a run over these files can open in the output directory
Targets(in) ==
    { OutputFile([path |-> n, chx |-> cx, chy |-> cy], k, of) :
        n \in DOMAIN in.files, cx \in 1..MaxCh, cy \in 1..MaxCh,
        k \in 0..(MaxCh * MaxCh - 1), of \in BOOLEAN }

Init ==
    /\ pc = "start"
    /\ inpt \in Inputs
    /\ g \in 1..MaxG
    /\ one_file \in BOOLEAN
    /\ overwrite \in BOOLEAN
    /\ add_code \in BOOLEAN
    /\ fs0 \in { <<>>, [f \in Targets(inpt) |-> <<Old>>] }
    /\ fs = fs0
    /\ image_tuples = <<>>
    /\ idx = 0
    /\ chunks_dict = <<>>
    /\ i = 0
    /\ chunk_group = <<>>
    /\ yields = <<>>
    /\ writes = <<>>

----------------------------------------------------------------------------
(* Actions *)

\* main line 131, get_image_tuples without candidates: SystemExit
NoSuitableFiles ==
    /\ pc = "start"
    /\ ImagePaths(inpt) = <<>>
    /\ pc' = "exit"
    /\ UNCHANGED <<inpt, g, one_file, overwrite, add_code, image_tuples, idx, chunks_dict,
                   i, chunk_group, fs, fs0, yields, writes>>

\* main line 131, get_image_tuples returning
GetImageTuples ==
    /\ pc = "start"
    /\ ImagePaths(inpt) # <<>>
    /\ LET r == ValidateAll(ImagePaths(inpt), inpt.files)
       IN  /\ image_tuples' = r.tuples
           /\ pc' = IF r.raised THEN "crashed" ELSE "loop"
    /\ UNCHANGED <<inpt, g, one_file, overwrite, add_code, idx, chunks_dict, i,
                   chunk_group, fs, fs0, yields, writes>>

\* main lines 132-134: the next image, its chunks, the generator created
GetChunksDict ==
    /\ pc = "loop"
    /\ idx < Len(image_tuples)
    /\ idx' = idx + 1
    /\ chunks_dict' = ChunksDict(image_tuples[idx + 1])
    /\ i' = 0
    /\ pc' = "gen"
    /\ UNCHANGED <<inpt, g, one_file, overwrite, add_code, image_tuples, chunk_group, fs,
                   fs0, yields, writes>>

\* main line 134: the generator resumed, and it yields
GeneratorYield ==
    /\ pc = "gen"
    /\ i < Len(chunks_dict)
    /\ chunk_group' = Yielded(chunks_dict, i, g)
    /\ yields' = Append(yields, [img |-> idx, group |-> chunk_group'])
    /\ i' = i + g
    /\ pc' = "store"
    /\ UNCHANGED <<inpt, g, one_file, overwrite, add_code, image_tuples, idx, chunks_dict,
                   fs, fs0, writes>>

\* main line 134: the generator resumed, and it is exhausted
GeneratorStop ==
    /\ pc = "gen"
    /\ i >= Len(chunks_dict)
    /\ pc' = "loop"
    /\ UNCHANGED <<inpt, g, one_file, overwrite, add_code, image_tuples, idx, chunks_dict,
                   i, chunk_group, fs, fs0, yields, writes>>

\* main line 135
StoreOutput ==
    /\ pc = "store"
    /\ LET img == image_tuples[idx]
           num == chunk_group.num
           output_file == OutputFile(img, num, one_file)
           exists == output_file \in DOMAIN fs
           mode == OpenMode(exists, overwrite, one_file)
           trunc == TruncateFirst(overwrite, num)
           fs1 == IF trunc THEN Truncate(fs, output_file) ELSE fs
           rec == Record(chunk_group.name, chunk_group.data, add_code)
       IN  /\ fs' = WriteFile(fs1, output_file, mode, rec)
           /\ writes' = Append(writes,
                  [img |-> idx, tuple |-> img, num |-> num,
                   file |-> output_file, existed |-> exists, mode |-> mode,
                   truncated |-> trunc,
                   before |-> IF exists THEN fs[output_file] ELSE <<>>,
                   rec |-> rec,
                   after |-> fs'[output_file]])
    /\ pc' = "gen"
    /\ UNCHANGED <<inpt, g, one_file, overwrite, add_code, image_tuples, idx, chunks_dict,
                   i, chunk_group, fs0, yields>>

\* main line 136
Finish ==
    /\ pc = "loop"
    /\ idx >= Len(image_tuples)
    /\ pc' = "done"
    /\ UNCHANGED <<inpt, g, one_file, overwrite, add_code, image_tuples, idx, chunks_dict,
                   i, chunk_group, fs, fs0, yields, writes>>

Next ==
    \/ NoSuitableFiles
    \/ GetImageTuples
    \/ GetChunksDict
    \/ GeneratorYield
    \/ GeneratorStop
    \/ StoreOutput
    \/ Finish

Spec == Init /\ [][Next]_vars

----------------------------------------------------------------------------
(* Vocabulary of the properties *)

Ceil(n, d) == (n + d - 1) \div d

\* the number of chunks of the m-th accepted image
NChunks(m) == image_tuples[m].chx * image_tuples[m].chy

\* the groups yielded, and the store_output calls made, for the m-th image
YieldsOf(m) == LET Mine(y) == y.img = m IN SelectSeq(yields, Mine)
WritesOf(m) == LET Mine(e) == e.img = m IN SelectSeq(writes, Mine)

\* every group of the m-th image has been yielded and stored
ImageFinished(m) ==
    \/ m < idx
    \/ m = idx /\ pc \in {"loop", "done"}
    \/ m = idx /\ pc = "gen" /\ i >= Len(chunks_dict)

\* a candidate file the validator has to accept
ValidFile(n) ==
    /\ inpt.files[n].ok
    /\ inpt.files[n].h >= ChunkY
    /\ inpt.files[n].w >= ChunkX

\* the record the k-th group (k from 0) of an image makes, by ChunkMap position
GroupRecord(img, k) ==
    LET d == ChunksDict(img)
        lo == k * g + 1
        hi == Min((k + 1) * g, Len(d))
    IN  Record([ j \in 1..(hi - lo + 1) |-> d[lo + j - 1].key ],
               [ j \in 1..(hi - lo + 1) |-> d[lo + j - 1].value ], add_code)

----------------------------------------------------------------------------
(* C1 *)

\* C1 as stated: every store_output call opens its file in append mode if
\* one-file mode is active or overwrite is requested with index > 0, and in
\* truncate mode in every other case, so that earlier content is replaced.
C1_AsStated ==
    \A k \in 1..Len(writes) :
        LET e == writes[k]
        IN  /\ e.mode = (IF one_file \/ (overwrite /\ e.num > 0) THEN "a" ELSE "w")
            /\ (e.mode = "w" => e.after = <<e.rec>>)
            /\ (e.mode = "a" => e.after = e.before \o <<e.rec>>)

\* C1 amended: the file is opened in append mode exactly when it exists
\* already and (overwrite is not requested or one-file mode is active), and in
\* truncate mode otherwise; with overwrite and index 0 it is emptied before
\* that.  So the file ends as its earlier content followed by the new record,
\* unless overwrite is requested and (one-file mode is off or the index is 0):
\* then it holds the new record alone.
C1_OpenMode ==
    \A k \in 1..Len(writes) :
        LET e == writes[k]
        IN  /\ e.mode = "a" <=> (e.existed /\ (~overwrite \/ one_file))
            /\ e.mode \in {"a", "w"}
            /\ e.truncated <=> (overwrite /\ e.num = 0)
            /\ e.after = IF overwrite /\ (~one_file \/ e.num = 0)
                         THEN <<e.rec>>
                         ELSE e.before \o <<e.rec>>

\* a group stored, with neither flag set, into a file that held content
C1_Witness ==
    \E k \in 1..Len(writes) :
        /\ ~one_file /\ ~overwrite
        /\ writes[k].existed /\ writes[k].before # <<>>
        /\ writes[k].mode = "a"

----------------------------------------------------------------------------
(* C2 *)

\* C2: with overwrite and one-file on a file that exists before the run, the
\* file is emptied before group 0 of an image and never again for its later
\* groups: once the image's last group is stored the file holds exactly the
\* records of the image's groups, in index order, and nothing older.
C2_OverwriteOneFile ==
    \A m \in 1..idx :
        LET W == WritesOf(m)
        IN  (overwrite /\ one_file /\ W # <<>> /\ W[1].file \in DOMAIN fs0) =>
              /\ \A k \in 1..Len(W) :
                    /\ W[k].truncated <=> (k = 1)
                    /\ k > 1 => W[k].after = W[k].before \o <<W[k].rec>>
                    /\ W[k].after =
                         [ j \in 1..k |-> GroupRecord(image_tuples[m], j - 1) ]
              /\ (m = idx /\ ImageFinished(m)) =>
                    fs[W[1].file] =
                      [ j \in 1..Ceil(NChunks(m), g) |->
                          GroupRecord(image_tuples[m], j - 1) ]

\* an image of several groups stored whole over a file of an earlier run
C2_Witness ==
    /\ overwrite /\ one_file
    /\ idx >= 1 /\ ImageFinished(idx) /\ pc = "gen"
    /\ Len(WritesOf(idx)) >= 2
    /\ WritesOf(idx)[1].file \in DOMAIN fs0
    /\ fs0[WritesOf(idx)[1].file] = <<Old>>

----------------------------------------------------------------------------
(* C3 *)

\* the name C3 gives: {stem}[{chx},{chy}]({index}).txt, without ({index}) in
\* one-file mode
ClaimedName(img, num) ==
    PathStem(img.path) \o <<"[", Num(img.chx), ",", Num(img.chy), "]">>
      \o (IF one_file THEN <<>> ELSE <<"(", Num(num), ")">>)
      \o <<".", "txt">>

\* C3: every group is stored in the file named {stem}[{chx},{chy}]({index}).txt
\* when one-file mode is off and {stem}[{chx},{chy}].txt when it is on.
C3_FileName ==
    \A k \in 1..Len(writes) :
        writes[k].file = ClaimedName(writes[k].tuple, writes[k].num)

----------------------------------------------------------------------------
(* C4 *)

\* C4: over a ChunkMap of N >= 1 chunks and group size G the generator yields
\* exactly ceil(N/G) pairs; the k-th (from 0) has index k and holds the chunks
\* at positions k*G .. min((k+1)*G, N)-1 in map order, so every group has G
\* chunks except possibly the last and every chunk is in exactly one group.
C4_Groups ==
    \A m \in 1..idx :
        LET Y == YieldsOf(m)
            d == ChunksDict(image_tuples[m])
            N == Len(d)
        IN  /\ N >= 1
            /\ Len(Y) <= Ceil(N, g)
            /\ ImageFinished(m) => Len(Y) = Ceil(N, g)
            /\ \A k \in 1..Len(Y) :
                  LET lo == (k - 1) * g
                      hi == Min(k * g, N) - 1
                      grp == Y[k].group
                  IN  /\ grp.num = k - 1
                      /\ Len(grp.name) = hi - lo + 1
                      /\ Len(grp.data) = hi - lo + 1
                      /\ \A j \in 0..(hi - lo) :
                            /\ grp.name[j + 1] = d[lo + j + 1].key
                            /\ grp.data[j + 1] = d[lo + j + 1].value
                      /\ (k < Ceil(N, g) => Len(grp.name) = g)
                      /\ Len(grp.name) \in 1..g
            /\ ImageFinished(m) =>
                  \A p \in 1..N :
                      Cardinality({ <<k, j>> \in (1..Len(Y)) \X (1..g) :
                                      /\ j <= Len(Y[k].group.name)
                                      /\ Y[k].group.name[j] = d[p].key }) = 1

\* an image whose chunks do not divide into whole groups, all of them yielded
C4_Witness ==
    /\ idx >= 1 /\ pc = "loop"
    /\ NChunks(idx) % g # 0
    /\ NChunks(idx) > g
    /\ Len(YieldsOf(idx)) = Ceil(NChunks(idx), g)

----------------------------------------------------------------------------
(* C5 *)

\* C5: an accepted image of H x W pixels has chx = floor(W/w), chy =
\* floor(H/h), and the keys of its ChunkMap are the row-major enumeration of
\* (column, row): chx*chy entries, no duplicates, (c1,r1) before (c2,r2) only
\* if r1 < r2, or r1 = r2 and c1 < c2.
C5_RowMajor ==
    /\ \A m \in 1..Len(image_tuples) :
          LET t == image_tuples[m]
          IN  /\ t.chx = inpt.files[t.path].w \div ChunkX
              /\ t.chy = inpt.files[t.path].h \div ChunkY
    /\ pc \in {"gen", "store"} =>
          LET t == image_tuples[idx]
              K == Keys(chunks_dict)
          IN  /\ Len(K) = t.chx * t.chy
              /\ \A k \in 1..Len(K) :
                    K[k] \in (0..(t.chx - 1)) \X (0..(t.chy - 1))
              /\ \A j, k \in 1..Len(K) :
                    j < k => /\ K[j] # K[k]
                             /\ \/ K[j][2] < K[k][2]
                                \/ K[j][2] = K[k][2] /\ K[j][1] < K[k][1]

\* the chunks of an image of two columns and two rows extracted
C5_Witness ==
    /\ pc = "gen" /\ i = 0
    /\ image_tuples[idx].chx = 2 /\ image_tuples[idx].chy = 2
    /\ Len(chunks_dict) = 4

----------------------------------------------------------------------------
(* C6 *)

\* the decoded images lower than a chunk or narrower than a chunk
TooSmallFiles ==
    { n \in DOMAIN inpt.files :
        inpt.files[n].ok /\ (inpt.files[n].h < ChunkY \/ inpt.files[n].w < ChunkX) }

\* C6: an image lower or narrower than one chunk is always rejected: it gets no
\* ImageDescriptor and no output file is written for it.
C6_TooSmall ==
    \A n \in TooSmallFiles :
        /\ \A m \in 1..Len(image_tuples) : image_tuples[m].path # n
        /\ \A k \in 1..Len(writes) : writes[k].tuple.path # n

\* a finished run over a too narrow image and an image that was stored
C6_Witness ==
    /\ pc = "done"
    /\ writes # <<>>
    /\ \E n \in TooSmallFiles :
          /\ Suffix(n) \in Extensions
          /\ inpt.files[n].h >= ChunkY
          /\ inpt.files[n].w > 0

----------------------------------------------------------------------------
(* C7 *)

\* the candidates the validator has to accept, in candidate order
ValidCandidates == SelectSeq(ImagePaths(inpt), ValidFile)

\* how far the run has got; every step of the run moves it on
Measure ==
    Len(yields) + Len(writes) + 2 * idx
      + (CASE pc = "start" -> 0
           [] pc \in {"gen", "store"} -> 1
           [] pc = "loop" -> 2
           [] pc \in {"done", "exit", "crashed"} -> 3)

\* the steps a run over the valid candidates takes at most
MeasureBound ==
    LET V == ValidCandidates
        Groups(n) == Ceil((inpt.files[n].w \div ChunkX) * (inpt.files[n].h \div ChunkY), g)
        RECURSIVE Sum(_)
        Sum(k) == IF k = 0 THEN 0 ELSE 2 * Groups(V[k]) + 2 + Sum(k - 1)
    IN  Sum(Len(V)) + 3

\* C7: a candidate that fails validation is skipped and the run goes on: one
\* ImageDescriptor per valid candidate, in sorted candidate order, every valid
\* image's groups stored, and the run reaches "Program finished" (no
\* exception leaves the validation, and every step moves the run on towards a
\* bounded end).
C7_SkipInvalid ==
    /\ [](pc \notin {"start", "exit"} =>
            /\ Len(image_tuples) = Len(ValidCandidates)
            /\ \A m \in 1..Len(image_tuples) :
                  image_tuples[m].path = ValidCandidates[m])
    /\ [](pc = "done" =>
            \A m \in 1..Len(image_tuples) :
                Len(WritesOf(m)) = Ceil(NChunks(m), g))
    /\ [](pc = "exit" => ImagePaths(inpt) = <<>>)
    /\ [](pc # "crashed")
    /\ [](Measure <= MeasureBound)
    /\ [][Measure' > Measure]_vars

\* a finished run whose first candidate could not be decoded and whose second
\* was stored
C7_Witness ==
    /\ pc = "done"
    /\ Len(ImagePaths(inpt)) = 2
    /\ ~inpt.files[ImagePaths(inpt)[1]].ok
    /\ Len(image_tuples) = 1
    /\ image_tuples[1].path = ImagePaths(inpt)[2]
    /\ writes # <<>>

----------------------------------------------------------------------------
(* C8 *)

\* C8: two distinct images accepted in one run never store into the same file.
C8_Isolated ==
    \A j, k \in 1..Len(writes) :
        writes[j].img # writes[k].img => writes[j].file # writes[k].file

----------------------------------------------------------------------------
(* C9 *)

\* C9 as stated: all chunks of an image are extracted before any of its groups
\* is serialized, and all of its groups are serialized before its first write.
C9_AsStated ==
    /\ pc \in {"gen", "store"} => Len(chunks_dict) = NChunks(idx)
    /\ \A m \in 1..idx :
          WritesOf(m) # <<>> => Len(YieldsOf(m)) = Ceil(NChunks(m), g)

\* C9 amended: all chunks of an image are extracted before any of its groups is
\* serialized; each group is serialized before it is written, and written
\* before the next group of the image is serialized.
C9_Phases ==
    /\ pc \in {"gen", "store"} =>
          Len(chunks_dict) = NChunks(idx)
    /\ \A m \in 1..idx :
          /\ Len(WritesOf(m)) <= Len(YieldsOf(m))
          /\ Len(YieldsOf(m)) <= Len(WritesOf(m)) + 1
          /\ Len(YieldsOf(m)) = Len(WritesOf(m)) + 1 <=> (m = idx /\ pc = "store")
          /\ \A k \in 1..Len(WritesOf(m)) : WritesOf(m)[k].num = YieldsOf(m)[k].group.num
    /\ \A m \in 1..Len(image_tuples) : m > idx => YieldsOf(m) = <<>>

\* the second group of an image serialized after its first group was written
C9_Witness ==
    /\ pc = "store"
    /\ Len(YieldsOf(idx)) = 2
    /\ Len(WritesOf(idx)) = 1
    /\ Ceil(NChunks(idx), g) >= 2

----------------------------------------------------------------------------
(* C10 *)

\* C10: without overwrite no store_output call destroys content of an existing
\* file, in one-file and in per-group mode: the file afterwards is the file
\* before followed by the new record.
C10_NoOverwriteKeeps ==
    ~overwrite =>
        \A k \in 1..Len(writes) :
            LET e == writes[k]
            IN  /\ e.after = e.before \o <<e.rec>>
                /\ fs[e.file] # <<>>
                /\ e.existed => e.before = (IF \E j \in 1..(k - 1) : writes[j].file = e.file
                                            THEN writes[CHOOSE j \in 1..(k - 1) :
                                                   /\ writes[j].file = e.file
                                                   /\ \A l \in (j + 1)..(k - 1) :
                                                        writes[l].file # e.file].after
                                            ELSE fs0[e.file])

\* a group stored, without overwrite, after the record an earlier run left
C10_Witness ==
    /\ ~overwrite
    /\ \E k \in 1..Len(writes) :
          /\ writes[k].existed
          /\ writes[k].before = <<Old>>
          /\ writes[k].after = <<Old, writes[k].rec>>

====
